---- MODULE Spec2Model ----
(***************************************************************************)
(* flightclub: an Arrow Flight SQL command line client.                    *)
(*                                                                         *)
(* The model follows one invocation of QueryCmd.Run (src/main.go) through  *)
(* parseAddr, client construction, the warmup call, printQuery and         *)
(* printInfo (src/query.go).  The Flight SQL server, the terminal and the  *)
(* table writer are the environment: every answer the server can give      *)
(* (failure, the number of endpoints, the batches of a stream, the         *)
(* terminal signal of a stream) is a nondeterministic choice.              *)
(*                                                                         *)
(* Errors are sequences of strings, Nil is the empty sequence.             *)
(* Integers are TLC integers; the catalogue below keeps every value and    *)
(* every intermediate product within 31 bits.                              *)
(***************************************************************************)
EXTENDS Integers, Sequences, FiniteSets, TLC

VARIABLES
    pc,          \* position in QueryCmd.Run / printQuery / printInfo
    url,         \* cli.URL after url.Parse: [scheme, host, port]
    skipWarmup,  \* cmd.SkipWarmup
    addr,        \* address returned by parseAddr
    cred,        \* credentials returned by parseAddr
    calls,       \* client constructions and network calls made, in order
    info,        \* info.Endpoint: the tickets returned by Execute
    ep,          \* index of the endpoint the loop of printInfo is at
    streamed,    \* per endpoint fetched, the batches reader.Next() delivered
    schema,      \* schema of the reader currently open
    readers,     \* per reader opened by DoGet: "open" or "released"
    table,       \* the tablewriter.Table of printInfo
    renders,     \* number of table.Render() calls executed
    out,         \* what has been written to the io.Writer w
    totalRows,   \* totalRows of printInfo
    header,      \* header of printInfo
    lastRender,  \* the renderText calls of the last printRecord, in order
    height,      \* height returned by term.GetSize(0)
    summary,     \* the timing summary line has been printed
    err          \* the error returned by QueryCmd.Run

vars == <<pc, url, skipWarmup, addr, cred, calls, info, ep, streamed, schema,
          readers, table, renders, out, totalRows, header, lastRender,
          height, summary, err>>

(***************************************************************************)
(* Bounds                                                                  *)
(***************************************************************************)
MaxEndpoints == 2   \* endpoints in one FlightInfo
MaxBatches   == 3   \* record batches delivered over one query
MaxHeight    == 6   \* terminal heights 0..MaxHeight

Nil == <<>>

(***************************************************************************)
(* Formatting helpers: fmt.Sprint, time.Time.Format, time.Duration.String  *)
(***************************************************************************)
RECURSIVE Digits(_, _)
\* n in decimal, zero padded to exactly w digits
Digits(n, w) ==
    IF w = 0 THEN "" ELSE Digits(n \div 10, w - 1) \o ToString(n % 10)

RECURSIVE FracDigits(_, _)
\* the w-digit fraction n with its trailing zeros removed
FracDigits(n, w) ==
    IF n = 0 \/ w = 0 THEN ""
    ELSE IF n % 10 = 0 THEN FracDigits(n \div 10, w - 1)
    ELSE Digits(n, w)

Frac(n, w) == IF n = 0 THEN "" ELSE "." \o FracDigits(n, w)

\* arrow.TimeUnit.Multiplier() as (seconds divisor, nanoseconds per unit)
UnitsPerSecond(unit) ==
    CASE unit = "s"  -> 1
      [] unit = "ms" -> 1000
      [] unit = "us" -> 1000000
      [] unit = "ns" -> 1000000000

\* Timestamp/Time32/Time64.ToTime(unit): [sec, nsec] since the Unix epoch, UTC
ToTime(v, unit) ==
    LET ups == UnitsPerSecond(unit)
    IN  [sec |-> v \div ups, nsec |-> (v % ups) * (1000000000 \div ups)]

\* Date32.ToTime(): midnight of the day v days after the epoch
Date32ToTime(v) == [sec |-> v * 86400, nsec |-> 0]

\* Date64.ToTime(): the milliseconds are truncated to whole days
Date64ToTime(v) == [sec |-> (v \div 86400000) * 86400, nsec |-> 0]

\* civil date from the year y counted from March, the month index mp counted
\* from March and the day of that year doy
CivilFromMarch(y, mp, doy) ==
    [year  |-> y + (IF mp < 10 THEN 0 ELSE 1),
     month |-> IF mp < 10 THEN mp + 3 ELSE mp - 9,
     day   |-> doy - (153 * mp + 2) \div 5 + 1]

\* civil date from the 400-year era, the year of the era and the day of it
CivilFromYear(era, yoe, doe) ==
    CivilFromMarch(yoe + era * 400,
        (5 * (doe - (365 * yoe + yoe \div 4 - yoe \div 100)) + 2) \div 153,
        doe - (365 * yoe + yoe \div 4 - yoe \div 100))

CivilFromEra(era, doe) ==
    CivilFromYear(era,
        (doe - doe \div 1460 + doe \div 36524 - doe \div 146096) \div 365,
        doe)

\* civil date of the day `days` after 1970-01-01
CivilDate(days) ==
    CivilFromEra((days + 719468) \div 146097, (days + 719468) % 146097)

\* time.Time.Format(pgTimestampFormat), "2006-01-02 15:04:05.999999999"
Format(t) ==
    LET date == CivilDate(t.sec \div 86400)
        sod  == t.sec % 86400
    IN  Digits(date.year, 4) \o "-" \o Digits(date.month, 2) \o "-"
          \o Digits(date.day, 2) \o " " \o Digits(sod \div 3600, 2) \o ":"
          \o Digits((sod % 3600) \div 60, 2) \o ":" \o Digits(sod % 60, 2)
          \o Frac(t.nsec, 9)

\* time.Duration.String() of d nanoseconds, d >= 0
DurationString(d) ==
    IF d = 0 THEN "0s"
    ELSE IF d < 1000 THEN ToString(d) \o "ns"
    ELSE IF d < 1000000 THEN
        ToString(d \div 1000) \o Frac(d % 1000, 3) \o "µs"
    ELSE IF d < 1000000000 THEN
        ToString(d \div 1000000) \o Frac(d % 1000000, 6) \o "ms"
    ELSE
        LET u == d \div 1000000000
            s == ToString(u % 60) \o Frac(d % 1000000000, 9) \o "s"
            m == u \div 60
        IN  IF m = 0 THEN s
            ELSE IF m \div 60 = 0 THEN ToString(m % 60) \o "m" \o s
            ELSE ToString(m \div 60) \o "h" \o ToString(m % 60) \o "m" \o s

\* fmt.Sprint of a float given by its shortest decimal form w.f (d digits)
SprintFloat(v) ==
    ToString(v.w) \o (IF v.d = 0 THEN "" ELSE "." \o Digits(v.f, v.d))

RECURSIVE JoinBytes(_)
JoinBytes(bs) ==
    IF Len(bs) = 0 THEN ""
    ELSE IF Len(bs) = 1 THEN ToString(bs[1])
    ELSE ToString(bs[1]) \o " " \o JoinBytes(Tail(bs))

\* fmt.Sprint of a []byte
SprintBytes(bs) == "[" \o JoinBytes(bs) \o "]"

(***************************************************************************)
(* renderText                                                              *)
(***************************************************************************)
\* the array types the type switch of renderText has a case for
SupportedTypes ==
    {"timestamp", "time32", "time64", "date32", "date64", "duration",
     "float16", "float32", "float64",
     "uint8", "uint16", "uint32", "uint64",
     "int8", "int16", "int32", "int64",
     "utf8", "binary", "bool"}

IsNull(column, row) == column.cells[row].null

Value(column, row) == column.cells[row].v

\* the type switch of renderText, for a row that is not null
renderValue(column, row) ==
    LET v == Value(column, row)
        t == column.type
    IN
    CASE t \in {"timestamp", "time32", "time64"} ->
           [s |-> Format(ToTime(v, column.unit)), err |-> Nil]
      [] t = "date32" -> [s |-> Format(Date32ToTime(v)), err |-> Nil]
      [] t = "date64" -> [s |-> Format(Date64ToTime(v)), err |-> Nil]
      [] t = "duration" ->
           [s |-> DurationString(v * (1000000000 \div UnitsPerSecond(column.unit))),
            err |-> Nil]
      [] t \in {"float16", "float32", "float64"} ->
           [s |-> SprintFloat(v), err |-> Nil]
      [] t \in {"uint8", "uint16", "uint32", "uint64",
                "int8", "int16", "int32", "int64"} ->
           [s |-> ToString(v), err |-> Nil]
      [] t = "utf8" -> [s |-> v, err |-> Nil]
      [] t = "binary" -> [s |-> SprintBytes(v), err |-> Nil]
      [] t = "bool" -> [s |-> IF v THEN "t" ELSE "f", err |-> Nil]
      [] OTHER -> [s |-> "", err |-> <<"unsupported arrow type", t>>]

\* variant: the type switch runs before the null check
renderTextNullLast(column, row) ==
    IF column.type \notin SupportedTypes THEN renderValue(column, row)
    ELSE IF IsNull(column, row) THEN [s |-> "NULL", err |-> Nil]
    ELSE renderValue(column, row)

\* variant: a cell of an unsupported type is skipped without an error
renderTextSkipUnsupported(column, row) ==
    IF IsNull(column, row) THEN [s |-> "NULL", err |-> Nil]
    ELSE IF column.type \notin SupportedTypes THEN [s |-> "", err |-> Nil]
    ELSE renderValue(column, row)

renderText(column, row) ==
    IF IsNull(column, row) THEN [s |-> "NULL", err |-> Nil]
    ELSE renderValue(column, row)

(***************************************************************************)
(* Record batches the server can stream                                    *)
(***************************************************************************)
Cell(v) == [null |-> FALSE, v |-> v]

NullCell == [null |-> TRUE, v |-> 0]

Col(name, type, unit, cells) ==
    [name |-> name, type |-> type, unit |-> unit, cells |-> cells]

PeopleCols(names, values) ==
    <<Col("name", "utf8", "", names), Col("value", "int32", "", values)>>

FlagCols(flags, elapsed) ==
    <<Col("flag", "bool", "", flags), Col("elapsed", "duration", "us", elapsed)>>

TagCols(ids, tags) ==
    <<Col("id", "int64", "", ids), Col("tags", "list", "", tags)>>

WideCols ==
    <<Col("ts", "timestamp", "s", <<Cell(1568756160), NullCell>>),
      Col("t32", "time32", "ms", <<Cell(3723004), NullCell>>),
      Col("t64", "time64", "us", <<Cell(1500000), NullCell>>),
      Col("d32", "date32", "", <<Cell(18156), NullCell>>),
      Col("d64", "date64", "", <<Cell(86400005), NullCell>>),
      Col("dur", "duration", "ms", <<Cell(1500), NullCell>>),
      Col("f16", "float16", "", <<Cell([w |-> 1, f |-> 5, d |-> 1]), NullCell>>),
      Col("f32", "float32", "", <<Cell([w |-> 77, f |-> 2, d |-> 1]), NullCell>>),
      Col("f64", "float64", "", <<Cell([w |-> 3, f |-> 14, d |-> 2]), NullCell>>),
      Col("u8", "uint8", "", <<Cell(255), NullCell>>),
      Col("u16", "uint16", "", <<Cell(65535), NullCell>>),
      Col("u32", "uint32", "", <<Cell(70000), NullCell>>),
      Col("u64", "uint64", "", <<Cell(0), NullCell>>),
      Col("i8", "int8", "", <<Cell(-128), NullCell>>),
      Col("i16", "int16", "", <<Cell(-1), NullCell>>),
      Col("i32", "int32", "", <<Cell(41), NullCell>>),
      Col("i64", "int64", "", <<Cell(-70000), NullCell>>),
      Col("s", "utf8", "", <<Cell("CA"), NullCell>>),
      Col("b", "binary", "", <<Cell(<<1, 2>>), NullCell>>),
      Col("ok", "bool", "", <<Cell(FALSE), NullCell>>),
      Col("nothing", "null", "", <<NullCell, NullCell>>),
      Col("big", "large_utf8", "", <<NullCell, NullCell>>)>>

BatchIds == {"people", "empty", "flags", "tags", "badtag", "wide"}

\* an arrow.Record: n rows, an ordered list of named, typed columns
Batch(id) ==
    CASE id = "people" ->
           [n |-> 2, cols |-> PeopleCols(<<Cell("coyote"), NullCell>>,
                                         <<Cell(77), Cell(-3)>>)]
      [] id = "empty" -> [n |-> 0, cols |-> PeopleCols(<<>>, <<>>)]
      [] id = "flags" ->
           [n |-> 1, cols |-> FlagCols(<<Cell(TRUE)>>, <<Cell(1500000)>>)]
      [] id = "tags" ->
           [n |-> 1, cols |-> TagCols(<<Cell(7)>>, <<NullCell>>)]
      [] id = "badtag" ->
           [n |-> 3, cols |-> TagCols(<<Cell(1), Cell(2), Cell(3)>>,
                                      <<NullCell, Cell(0), NullCell>>)]
      [] id = "wide" -> [n |-> 2, cols |-> WideCols]

NumRows(record) == record.n

NumCols(record) == Len(record.cols)

ColumnName(record, c) == record.cols[c].name

\* the arrow.Schema of a record: names and types of its columns
SchemaOf(record) ==
    [c \in 1..NumCols(record) |->
        <<record.cols[c].name, record.cols[c].type, record.cols[c].unit>>]

Schemas == {SchemaOf(Batch(id)) : id \in BatchIds}

(***************************************************************************)
(* getHeader, printRecord                                                  *)
(***************************************************************************)
getHeader(record) == [c \in 1..NumCols(record) |-> ColumnName(record, c)]

RECURSIVE RenderCells(_, _, _, _, _)
\* the inner loop of printRecord over the columns c.. of row r
RenderCells(record, r, c, row, log) ==
    IF c > NumCols(record) THEN [row |-> row, err |-> Nil, log |-> log]
    ELSE LET res   == renderText(record.cols[c], r)
             entry == [type |-> record.cols[c].type,
                       null |-> IsNull(record.cols[c], r),
                       s |-> res.s, err |-> res.err]
         IN  IF res.err # Nil
             THEN [row |-> row, err |-> res.err, log |-> Append(log, entry)]
             ELSE RenderCells(record, r, c + 1, Append(row, res.s),
                              Append(log, entry))

RECURSIVE PrintRows(_, _, _, _)
\* the outer loop of printRecord over the rows r..
PrintRows(rows, record, r, log) ==
    IF r > NumRows(record) THEN [rows |-> rows, err |-> Nil, log |-> log]
    ELSE LET res == RenderCells(record, r, 1, <<>>, log)
         IN  IF res.err # Nil
             THEN [rows |-> rows, err |-> res.err, log |-> res.log]
             ELSE PrintRows(Append(rows, res.row), record, r + 1, res.log)

\* printRecord: the rows appended to the table, the error, the cells rendered
printRecord(rows, record) == PrintRows(rows, record, 1, <<>>)

(***************************************************************************)
(* parseAddr                                                               *)
(***************************************************************************)
\* cli.URL as url.Parse splits it; port "" when the URL names none
Urls ==
    [scheme : {"http", "https", "ftp"}, host : {"host"}, port : {"", "9000"}]

\* variant: an unknown scheme falls through to plaintext credentials
parseAddrAnyScheme(u) ==
    LET p == IF u.port = ""
             THEN IF u.scheme = "https" THEN "443" ELSE "80"
             ELSE u.port
    IN  [addr |-> u.host \o ":" \o p,
         cred |-> IF u.scheme = "https" THEN "tls" ELSE "insecure",
         err |-> Nil]

parseAddr(u) ==
    LET p == IF u.port = ""
             THEN IF u.scheme = "https" THEN "443"
                  ELSE IF u.scheme = "http" THEN "80"
                  ELSE ""
             ELSE u.port
        a == u.host \o ":" \o p
    IN  CASE u.scheme = "http"  -> [addr |-> a, cred |-> "insecure", err |-> Nil]
          [] u.scheme = "https" -> [addr |-> a, cred |-> "tls", err |-> Nil]
          [] OTHER -> [addr |-> "", cred |-> "nil",
                       err |-> <<"unhandled schema", u.scheme>>]

(***************************************************************************)
(* The table writer                                                        *)
(***************************************************************************)
\* tablewriter.NewWriter(w): no header, no footer, no rows
NewWriter == [created |-> TRUE, rows |-> <<>>, header |-> <<>>,
              footer |-> <<>>, footerSet |-> FALSE]

\* before printInfo is entered there is no table
NoTable == [NewWriter EXCEPT !.created = FALSE]

\* table.Render(): the header when there is one, the rows, the footer when
\* there is one; borders and row lines are switched off
Render(t) ==
    (IF Len(t.header) > 0 THEN <<[kind |-> "header", cells |-> t.header]>>
     ELSE <<>>)
    \o [i \in 1..Len(t.rows) |-> [kind |-> "row", cells |-> t.rows[i]]]
    \o (IF Len(t.footer) > 0 THEN <<[kind |-> "footer", cells |-> t.footer]>>
        ELSE <<>>)

\* variant: the footer test is strict
ShowFooterStrict(rows, h) == (rows + 4) > h

\* the footer test of printInfo
ShowFooter(rows, h) == (rows + 4) >= h

(***************************************************************************)
(* Initial state: the command line                                         *)
(***************************************************************************)
Init ==
    /\ pc = "parseAddr"
    /\ url \in Urls
    /\ skipWarmup \in BOOLEAN
    /\ addr = ""
    /\ cred = "nil"
    /\ calls = <<>>
    /\ info = <<>>
    /\ ep = 0
    /\ streamed = <<>>
    /\ schema = <<>>
    /\ readers = <<>>
    /\ table = NoTable
    /\ renders = 0
    /\ out = <<>>
    /\ totalRows = 0
    /\ header = <<>>
    /\ lastRender = <<>>
    /\ height = 0
    /\ summary = FALSE
    /\ err = Nil

\* QueryCmd.Run returns e without printing the timing summary
ReturnError(e) ==
    /\ pc' = "done"
    /\ err' = e

printInfoVars == <<info, ep, streamed, schema, readers, table, renders, out,
                   totalRows, header, lastRender, height>>

(***************************************************************************)
(* QueryCmd.Run up to printQuery                                           *)
(***************************************************************************)
ParseAddr ==
    /\ pc = "parseAddr"
    /\ LET res == parseAddr(url)
       IN  /\ addr' = res.addr
           /\ cred' = res.cred
           /\ IF res.err # Nil
              THEN ReturnError(res.err)
              ELSE pc' = "NewClientCtx" /\ err' = err
    /\ UNCHANGED <<url, skipWarmup, calls, summary>>
    /\ UNCHANGED printInfoVars

NewClientCtx(ok) ==
    /\ pc = "NewClientCtx"
    /\ calls' = Append(calls, "NewClientCtx")
    /\ IF ok THEN pc' = "warmup" /\ err' = err
       ELSE ReturnError(<<"NewClientCtx failed">>)
    /\ UNCHANGED <<url, skipWarmup, addr, cred, summary>>
    /\ UNCHANGED printInfoVars

Warmup(ok) ==
    /\ pc = "warmup"
    /\ IF skipWarmup
       THEN /\ ok
            /\ pc' = "Execute"
            /\ UNCHANGED <<calls, err>>
       ELSE /\ calls' = Append(calls, "GetCatalogs")
            /\ IF ok THEN pc' = "Execute" /\ err' = err
               ELSE ReturnError(<<"GetCatalogs failed">>)
    /\ UNCHANGED <<url, skipWarmup, addr, cred, summary>>
    /\ UNCHANGED printInfoVars

(***************************************************************************)
(* printQuery and printInfo                                                *)
(***************************************************************************)
EOF == <<"EOF">>

StreamErrors == {Nil, EOF, <<"stream error">>}

RECURSIVE SumLen(_)
SumLen(ss) == IF Len(ss) = 0 THEN 0 ELSE Len(Head(ss)) + SumLen(Tail(ss))

\* number of record batches delivered so far
TotalBatches == SumLen(streamed)

\* the deferred table.Render() of printInfo, run on return with table t
DeferredRender(t) ==
    /\ renders' = renders + 1
    /\ out' = out \o Render(t)

\* variant: the error of Execute is returned only after the table was built
\* and rendered
ExecuteRenderFirst(ok, n) ==
    /\ pc = "Execute"
    /\ calls' = Append(calls, "Execute")
    /\ IF ok
       THEN /\ info' = [i \in 1..n |-> i]
            /\ table' = NewWriter
            /\ ep' = 1
            /\ pc' = IF n = 0 THEN "finish" ELSE "DoGet"
            /\ UNCHANGED <<err, renders, out>>
       ELSE /\ table' = NewWriter
            /\ DeferredRender(NewWriter)
            /\ ReturnError(<<"Execute failed">>)
            /\ UNCHANGED <<info, ep>>
    /\ UNCHANGED <<url, skipWarmup, addr, cred, summary, streamed, schema,
                   readers, totalRows, header, lastRender, height>>

\* printQuery: c.Execute; on success printInfo is entered with n endpoints
Execute(ok, n) ==
    /\ pc = "Execute"
    /\ calls' = Append(calls, "Execute")
    /\ IF ok
       THEN /\ info' = [i \in 1..n |-> i]
            /\ table' = NewWriter
            /\ ep' = 1
            /\ pc' = IF n = 0 THEN "finish" ELSE "DoGet"
            /\ err' = err
       ELSE /\ ReturnError(<<"Execute failed">>)
            /\ UNCHANGED <<info, table, ep>>
    /\ UNCHANGED <<url, skipWarmup, addr, cred, summary, streamed, schema,
                   readers, renders, out, totalRows, header, lastRender,
                   height>>

\* variant: a failing DoGet returns without the render
DoGetNoRender(ok, sch) ==
    /\ pc = "DoGet"
    /\ calls' = Append(calls, "DoGet")
    /\ IF ok
       THEN /\ readers' = Append(readers, "open")
            /\ streamed' = Append(streamed, <<>>)
            /\ schema' = sch
            /\ pc' = "Next"
            /\ err' = err
       ELSE /\ ReturnError(<<"getting ticket failed", "DoGet failed">>)
            /\ UNCHANGED <<readers, streamed, schema>>
    /\ UNCHANGED <<url, skipWarmup, addr, cred, summary, info, ep, table,
                   totalRows, header, lastRender, height, renders, out>>

\* c.DoGet for endpoint ep: a reader over a stream of schema sch, or an error
DoGet(ok, sch) ==
    /\ pc = "DoGet"
    /\ calls' = Append(calls, "DoGet")
    /\ IF ok
       THEN /\ readers' = Append(readers, "open")
            /\ streamed' = Append(streamed, <<>>)
            /\ schema' = sch
            /\ pc' = "Next"
            /\ UNCHANGED <<renders, out, err>>
       ELSE /\ DeferredRender(table)
            /\ ReturnError(<<"getting ticket failed", "DoGet failed">>)
            /\ UNCHANGED <<readers, streamed, schema>>
    /\ UNCHANGED <<url, skipWarmup, addr, cred, summary, info, ep, table,
                   totalRows, header, lastRender, height>>

\* variant: the table is rendered after every batch instead of on return
ReaderNextRenderEach(id) ==
    /\ pc = "Next"
    /\ TotalBatches < MaxBatches
    /\ SchemaOf(Batch(id)) = schema
    /\ LET record == Batch(id)
           res    == printRecord(table.rows, record)
           t      == [table EXCEPT !.rows = res.rows]
       IN  /\ totalRows' = totalRows + NumRows(record)
           /\ header' = getHeader(record)
           /\ table' = t
           /\ lastRender' = res.log
           /\ streamed' = [streamed EXCEPT ![Len(streamed)] = Append(@, id)]
           /\ DeferredRender(t)
           /\ IF res.err # Nil
              THEN ReturnError(res.err)
              ELSE UNCHANGED <<pc, err>>
    /\ UNCHANGED <<url, skipWarmup, addr, cred, summary, calls, info, ep,
                   schema, readers, height>>

\* reader.Next() delivers the record `id`; the body of the inner loop
ReaderNext(id) ==
    /\ pc = "Next"
    /\ TotalBatches < MaxBatches
    /\ SchemaOf(Batch(id)) = schema
    /\ LET record == Batch(id)
           res    == printRecord(table.rows, record)
           t      == [table EXCEPT !.rows = res.rows]
       IN  /\ totalRows' = totalRows + NumRows(record)
           /\ header' = getHeader(record)
           /\ table' = t
           /\ lastRender' = res.log
           /\ streamed' = [streamed EXCEPT ![Len(streamed)] = Append(@, id)]
           /\ IF res.err # Nil
              THEN DeferredRender(t) /\ ReturnError(res.err)
              ELSE UNCHANGED <<renders, out, pc, err>>
    /\ UNCHANGED <<url, skipWarmup, addr, cred, summary, calls, info, ep,
                   schema, readers, height>>

\* reader.Next() returns false: reader.Release(), then reader.Err() is e
ReaderEnd(e) ==
    /\ pc = "Next"
    /\ readers' = [readers EXCEPT ![Len(readers)] = "released"]
    /\ IF e = Nil
       THEN /\ ep' = ep + 1
            /\ pc' = IF ep < Len(info) THEN "DoGet" ELSE "finish"
            /\ UNCHANGED <<renders, out, err>>
       ELSE IF e = EOF
       THEN /\ pc' = "finish"
            /\ UNCHANGED <<ep, renders, out, err>>
       ELSE /\ DeferredRender(table)
            /\ ReturnError(e)
            /\ ep' = ep
    /\ UNCHANGED <<url, skipWarmup, addr, cred, summary, calls, info, streamed,
                   schema, table, totalRows, header, lastRender, height>>

\* after the loop: SetHeader, the footer decision with terminal height h, the
\* deferred Render; printQuery and Run return and the summary is printed
Finish(h) ==
    /\ pc = "finish"
    /\ height' = h
    /\ LET t == [table EXCEPT
                   !.header = header,
                   !.footer = IF ShowFooter(totalRows, h) THEN header ELSE @,
                   !.footerSet = ShowFooter(totalRows, h)]
       IN  table' = t /\ DeferredRender(t)
    /\ summary' = TRUE
    /\ pc' = "done"
    /\ err' = Nil
    /\ UNCHANGED <<url, skipWarmup, addr, cred, calls, info, ep, streamed,
                   schema, readers, totalRows, header, lastRender>>

Next ==
    \/ ParseAddr
    \/ \E ok \in BOOLEAN : NewClientCtx(ok)
    \/ \E ok \in BOOLEAN : Warmup(ok)
    \/ \E ok \in BOOLEAN, n \in 0..MaxEndpoints : Execute(ok, n)
    \/ \E ok \in BOOLEAN, sch \in Schemas : DoGet(ok, sch)
    \/ \E id \in BatchIds : ReaderNext(id)
    \/ \E e \in StreamErrors : ReaderEnd(e)
    \/ \E h \in 0..MaxHeight : Finish(h)

Spec == Init /\ [][Next]_vars

(***************************************************************************)
(* Definitions used to state the properties                                *)
(***************************************************************************)
Range(f) == {f[i] : i \in DOMAIN f}

Done == pc = "done"

Succeeded == Done /\ err = Nil

ExecuteFailed == err = <<"Execute failed">>

TicketFailed == Len(err) > 0 /\ err[1] = "getting ticket failed"

UnsupportedFailed == Len(err) > 0 /\ err[1] = "unsupported arrow type"

\* row r of a record has a non-null cell of a type outside the supported set
BadRow(record, r) ==
    \E c \in 1..NumCols(record) :
        /\ ~record.cols[c].cells[r].null
        /\ record.cols[c].type \notin SupportedTypes

\* the rows of a record in front of its first bad row
GoodCount(record) ==
    IF \E r \in 1..NumRows(record) : BadRow(record, r)
    THEN (CHOOSE r \in 1..NumRows(record) :
            /\ BadRow(record, r)
            /\ \A q \in 1..(r - 1) : ~BadRow(record, q)) - 1
    ELSE NumRows(record)

\* the display strings of the rows of a record in front of its first bad row
GoodRows(record) ==
    [r \in 1..GoodCount(record) |->
        [c \in 1..NumCols(record) |-> renderText(record.cols[c], r).s]]

RECURSIVE RowsOfBatches(_)
RowsOfBatches(ids) ==
    IF Len(ids) = 0 THEN <<>>
    ELSE GoodRows(Batch(Head(ids))) \o RowsOfBatches(Tail(ids))

RECURSIVE RowsOfStreams(_)
\* the rows of every batch of every stream, in endpoint, batch and row order
RowsOfStreams(ss) ==
    IF Len(ss) = 0 THEN <<>>
    ELSE RowsOfBatches(Head(ss)) \o RowsOfStreams(Tail(ss))

RECURSIVE Flatten(_)
Flatten(ss) == IF Len(ss) = 0 THEN <<>> ELSE Head(ss) \o Flatten(Tail(ss))

RECURSIVE CountRows(_)
CountRows(ids) ==
    IF Len(ids) = 0 THEN 0
    ELSE NumRows(Batch(Head(ids))) + CountRows(Tail(ids))

\* the lines of kind k written to the writer
OutCells(k) ==
    LET idx == {i \in 1..Len(out) : out[i].kind = k}
        RECURSIVE Pick(_)
        Pick(i) == IF i > Len(out) THEN <<>>
                   ELSE IF i \in idx THEN <<out[i].cells>> \o Pick(i + 1)
                   ELSE Pick(i + 1)
    IN  Pick(1)

\* the batches delivered so far, in order of delivery
Delivered == Flatten(streamed)

NonEmptyDelivered ==
    {i \in 1..Len(Delivered) : NumRows(Batch(Delivered[i])) > 0}

FirstNonEmpty ==
    CHOOSE i \in NonEmptyDelivered : \A j \in NonEmptyDelivered : i <= j

(***************************************************************************)
(* Properties                                                              *)
(***************************************************************************)

\* C1: when Execute fails, Run returns the error at once: no DoGet is made,
\* no table is created or rendered, nothing is written to the writer and no
\* timing summary is printed.
C1_ExecuteFailureAborts ==
    ExecuteFailed =>
        /\ Done
        /\ "DoGet" \notin Range(calls)
        /\ ~table.created
        /\ renders = 0
        /\ out = <<>>
        /\ ~summary

C1_Witness ==
    /\ Done
    /\ ExecuteFailed
    /\ calls[Len(calls)] = "Execute"

\* C2 (as claimed): a ticket failure on any endpoint returns the error and
\* writes nothing to the writer, not even rows of earlier endpoints.
C2_TicketFailureWritesNothing ==
    (Done /\ TicketFailed) => out = <<>>

\* C2 (amended): a ticket failure returns the wrapped error without a timing
\* summary; the deferred render runs once and writes exactly the rows collected
\* from the earlier endpoints, without header or footer, so nothing is written
\* only when no row had been collected.
C2_TicketFailureFlushesRows ==
    (Done /\ TicketFailed) =>
        /\ err = <<"getting ticket failed", "DoGet failed">>
        /\ ~summary
        /\ renders = 1
        /\ table.rows = RowsOfStreams(streamed)
        /\ out = [i \in 1..Len(table.rows) |->
                    [kind |-> "row", cells |-> table.rows[i]]]

C2_Witness ==
    /\ Done
    /\ TicketFailed
    /\ Len(streamed) >= 1
    /\ Len(out) > 0

\* C3: when printInfo succeeds every endpoint of info.Endpoint has been
\* fetched, the table holds exactly the rows of all their batches in endpoint,
\* batch and row order, and totalRows is the sum of the batches' row counts;
\* an endpoint ending in io.EOF does not stop the remaining endpoints.
C3_AllEndpointsRendered ==
    Succeeded =>
        /\ Len(streamed) = Len(info)
        /\ table.rows = RowsOfStreams(streamed)
        /\ OutCells("row") = table.rows
        /\ totalRows = CountRows(Delivered)

\* C4: on success the table header is the column-name list of the first
\* non-empty batch delivered; with no batch at all the header is empty and
\* nothing is written.
C4_HeaderOfFirstBatch ==
    Succeeded =>
        /\ NonEmptyDelivered # {} =>
              table.header = getHeader(Batch(Delivered[FirstNonEmpty]))
        /\ Delivered = <<>> => (table.header = <<>> /\ out = <<>>)

\* C5: on success a footer equal to the header is set exactly when
\* totalRows + 4 >= terminal height, and no footer is set otherwise.
C5_FooterRule ==
    Succeeded =>
        /\ table.footerSet <=> (totalRows + 4 >= height)
        /\ table.footerSet => table.footer = table.header
        /\ ~table.footerSet => table.footer = <<>>
        /\ OutCells("footer") =
             (IF table.footerSet /\ table.header # <<>>
              THEN <<table.header>> ELSE <<>>)

C5_Witness ==
    /\ Succeeded
    /\ totalRows + 4 = height
    /\ table.footerSet
    /\ OutCells("footer") = <<header>>
    /\ header # <<>>

\* C6: every cell whose null flag is set renders as "NULL" without an error,
\* whatever the type of its column, supported or not.
C6_NullRendersNULL ==
    \A i \in 1..Len(lastRender) :
        lastRender[i].null =>
            (lastRender[i].s = "NULL" /\ lastRender[i].err = Nil)

C6_Witness ==
    /\ \E i \in 1..Len(lastRender) :
          lastRender[i].null /\ lastRender[i].type \notin SupportedTypes
    /\ \E i \in 1..Len(lastRender) :
          lastRender[i].null /\ lastRender[i].type \in SupportedTypes

\* C7 (as claimed): every cell of a column of an unsupported type, null
\* cells included, fails with an error naming the type and yields no string.
C7_UnsupportedAlwaysFails ==
    \A i \in 1..Len(lastRender) :
        lastRender[i].type \notin SupportedTypes =>
            /\ lastRender[i].err = <<"unsupported arrow type", lastRender[i].type>>
            /\ lastRender[i].s = ""

\* C7 (amended): every cell of a column of an unsupported type whose null flag
\* is not set fails with an error naming the type and yields no string; the
\* error is what Run returns, the row of that cell is not appended to the
\* table and no summary is printed.
C7_UnsupportedNonNullFails ==
    \A i \in 1..Len(lastRender) :
        (lastRender[i].type \notin SupportedTypes /\ ~lastRender[i].null) =>
            /\ lastRender[i].err = <<"unsupported arrow type", lastRender[i].type>>
            /\ lastRender[i].s = ""
            /\ i = Len(lastRender)
            /\ Done
            /\ err = lastRender[i].err
            /\ ~summary
            /\ table.rows = RowsOfStreams(streamed)
            /\ Len(table.rows) < totalRows

C7_Witness ==
    /\ Done
    /\ UnsupportedFailed
    /\ \E i \in 1..Len(lastRender) :
          lastRender[i].type \notin SupportedTypes /\ lastRender[i].null
    /\ Len(table.rows) > 0

\* C8: parseAddr keeps an explicit port, defaults to 80 with insecure
\* credentials for http and to 443 with TLS credentials for https; any other
\* scheme is an error with no address and no credentials, returned by Run
\* before a client is constructed or a network call is made.
C8_ParseAddr ==
    pc # "parseAddr" =>
        IF url.scheme \in {"http", "https"}
        THEN /\ addr = url.host \o ":" \o
                  (IF url.port # "" THEN url.port
                   ELSE IF url.scheme = "http" THEN "80" ELSE "443")
             /\ cred = (IF url.scheme = "http" THEN "insecure" ELSE "tls")
             /\ (Len(err) > 0 => err[1] # "unhandled schema")
        ELSE /\ Done
             /\ err = <<"unhandled schema", url.scheme>>
             /\ addr = ""
             /\ cred = "nil"
             /\ calls = <<>>
             /\ ~table.created

C8_Witness ==
    /\ Done
    /\ url.scheme = "ftp"
    /\ url.port = "9000"
    /\ err = <<"unhandled schema", "ftp">>
    /\ calls = <<>>

\* C9: while printInfo runs nothing is rendered; once it has returned, on any
\* path, Render has run exactly once and has written every row that had been
\* fully appended, the rows in front of a failure included.
C9_RenderOnceOnExit ==
    /\ (table.created /\ ~Done) => (renders = 0 /\ out = <<>>)
    /\ (table.created /\ Done) =>
          /\ renders = 1
          /\ table.rows = RowsOfStreams(streamed)
          /\ OutCells("row") = table.rows
    /\ ~table.created => renders = 0

C9_Witness ==
    /\ Done
    /\ UnsupportedFailed
    /\ Len(Delivered) >= 2
    /\ renders = 1
    /\ Len(out) >= 3

\* C10: when printInfo has returned, every reader DoGet opened has been
\* released.
C10_ReadersReleased ==
    Done => \A i \in 1..Len(readers) : readers[i] = "released"

====
